---- MODULE Spec2Model ----
(***************************************************************************)
(* Quotation extraction of talon (talon/quotations.py and                  *)
(* talon/html_quotations.py).                                              *)
(*                                                                         *)
(* A message body is a sequence of lines.  A line is one of a fixed set of *)
(* representative line texts (LineKinds); every decision the plain-text    *)
(* path takes on a line (is_empty, is_forward, is_quote, is_splitter,      *)
(* RE_LINK, RE_ON_DATE_SMB_WROTE, strip) is determined by which of these   *)
(* texts the line is.  The marker string is a sequence over                *)
(* {"e","f","m","s","t"} and the regular expressions of                    *)
(* process_marked_lines are evaluated by backtracking matchers that list   *)
(* the possible match ends in the order a backtracking engine tries them.  *)
(***************************************************************************)
EXTENDS Integers, Sequences, FiniteSets, TLC

VARIABLES
    msg_body,       \* extract_from_plain: the argument
    pc,             \* extract_from_plain: position in the function
    lines,          \* extract_from_plain: lines (after preprocess/splitlines)
    markers,        \* extract_from_plain: result of mark_message_lines
    return_flags,   \* process_marked_lines: [were_lines_deleted, first, last]
    result,         \* extract_from_plain: returned value
    pass,           \* 1: first extraction, 2: extraction of the first output
    first_result,   \* value returned by the first extraction
    html_tree,      \* extract_from_html_by_plaintext: the tree that is cut
    html_tree_copy, \* extract_from_html_by_plaintext: the copy with checkpoints
    number_of_checkpoints,  \* value returned by add_checkpoint
    quotation_checkpoints,  \* the checkpoint IDs flagged as quoted
    placeholder,    \* TRUE: a placeholder element is supplied, FALSE: None
    walk,           \* the IDs delete_quotation_tags computed for each node
    tpc,            \* extract_from_html_by_plaintext: position in the function
    html_kind,      \* extract_from_html: what the body is (blank, malformed, ok)
    outcomes,       \* extract_from_html: what each method does to its copy
    method,         \* extract_from_html: index of the next method of the loop
    results,        \* extract_from_html: the list of (length, tree_copy, method)
    html_result,    \* extract_from_html: returned value
    hpc,            \* extract_from_html: position in the function
    content_type,   \* extract_from: argument
    body,           \* extract_from: argument msg_body
    returned,       \* extract_from: returned value
    raised,         \* extract_from: the call in the try block raised
    dpc             \* extract_from: position in the function

plainVars == <<msg_body, pc, lines, markers, return_flags, result, pass, first_result>>

treeVars == <<html_tree, html_tree_copy, number_of_checkpoints,
              quotation_checkpoints, placeholder, walk, tpc>>

selVars == <<html_kind, outcomes, method, results, html_result, hpc>>

dispVars == <<content_type, body, returned, raised, dpc>>

vars == <<plainVars, treeVars, selVars, dispVars>>

(***************************************************************************)
(* Bounds of the model.                                                    *)
(***************************************************************************)
MaxLen == 5          \* longest body over the basic line texts
MaxRich == 3         \* longest body over all line texts
MaxRun == 3          \* longest run in an alternating text/quote body
MaxMid == 2          \* most lines between a splitter and the quote below it
MaxNodes == 3        \* largest tree
MaxRender == 2       \* longest rendered plain text of a candidate
MaxBody == 2         \* longest body handed to extract_from

(***************************************************************************)
(* Program constants.                                                      *)
(***************************************************************************)
SPLITTER_MAX_LINES == 5
MAX_LINES_COUNT == 1000

(***************************************************************************)
(* Representative line texts.                                              *)
(*   blank  ""                                                             *)
(*   fwd    "---------- Forwarded message ----------"                      *)
(*   quote  "> old content"                                                *)
(*   split  "On Mon, Jan 5, 2015 at 3:00 PM, Bob <b@x.com> wrote:"         *)
(*   head   "On Mon, Jan 5, 2015 at 3:00 PM,"   (first line of a splitter  *)
(*          that is spread over several lines)                             *)
(*   tail   "Bob <b@x.com> wrote:"              (its last line)            *)
(*   text   "Thanks!"                                                      *)
(*   inl    "Thanks! On Mon, Jan 5, 2015 at 3:00 PM, Bob wrote:"           *)
(*   link   "see <http://x.com>"                                           *)
(*   mlink  "see @@http://x.com@@"                                         *)
(***************************************************************************)
BasicKinds == {"blank", "fwd", "quote", "split", "text"}
LineKinds == BasicKinds \cup {"head", "tail", "inl", "link", "mlink"}

Range(s) == {s[k] : k \in DOMAIN s}

SeqsUpTo(S, n) == UNION {[1..k -> S] : k \in 0..n}

RECURSIVE Flatten(_)
Flatten(ss) == IF ss = <<>> THEN <<>> ELSE Head(ss) \o Flatten(Tail(ss))

Reverse(s) == [k \in 1..Len(s) |-> s[Len(s) + 1 - k]]

(***************************************************************************)
(* Backtracking matchers.  w is the string matched (a sequence of marker   *)
(* characters), i the number of characters consumed so far.  Every matcher *)
(* returns the sequence of offsets at which its pattern can end, in the    *)
(* order in which a backtracking engine (Python's re / regex) tries them:  *)
(* greedy repetitions try the longest alternative first.  The first        *)
(* element of the sequence of a whole pattern is the end of the match that *)
(* re.match reports; the empty sequence means None.                        *)
(***************************************************************************)
Markers == {"e", "f", "m", "s", "t"}

\* offset of the end of the longest run of characters of cls that starts at i
RunEnd(w, i, cls) ==
    CHOOSE j \in i..Len(w) :
        /\ \A k \in (i + 1)..j : w[k] \in cls
        /\ (j = Len(w) \/ w[j + 1] \notin cls)

\* [cls]*   (greedy)
Star(w, i, cls) ==
    LET j == RunEnd(w, i, cls) IN [n \in 1..(j - i + 1) |-> j + 1 - n]

\* a single character c
Lit(w, i, c) == IF i < Len(w) /\ w[i + 1] = c THEN <<i + 1>> ELSE <<>>

\* ce*
Unit(w, i, c) == IF Lit(w, i, c) = <<>> THEN <<>> ELSE Star(w, i + 1, {"e"})

\* (ce*)+
RECURSIVE Plus(_, _, _)
Plus(w, i, c) ==
    LET u == Unit(w, i, c)
    IN  Flatten([n \in 1..Len(u) |-> Plus(w, u[n], c) \o <<u[n]>>])

\* (ce*){2,}
AtLeast2(w, i, c) ==
    LET u == Unit(w, i, c)
    IN  Flatten([n \in 1..Len(u) |-> Plus(w, u[n], c)])

\* (ce*){3}
Times3(w, i, c) ==
    LET u == Unit(w, i, c)
    IN  Flatten([n \in 1..Len(u) |->
            LET v == Unit(w, u[n], c)
            IN  Flatten([k \in 1..Len(v) |-> Unit(w, v[k], c)])])

\* (s)+
SPlus(w, i) ==
    LET j == RunEnd(w, i, {"s"}) IN [n \in 1..(j - i) |-> j + 1 - n]

\* (te*)+(me*)+
TextThenQuote(w, i) ==
    LET a == Plus(w, i, "t")
    IN  Flatten([n \in 1..Len(a) |-> Plus(w, a[n], "m")])

\* ((te*)+(me*)+)+
RECURSIVE Interleaved(_, _)
Interleaved(w, i) ==
    LET a == TextThenQuote(w, i)
    IN  Flatten([n \in 1..Len(a) |-> Interleaved(w, a[n]) \o <<a[n]>>])

\* ((se*)+|(me*){2,})
Border(w, i) == Plus(w, i, "s") \o AtLeast2(w, i, "m")

\* re.search('(me*){3}', markers)
HasThreeQuoteRuns(w) == \E i \in 0..Len(w) : Times3(w, i, "m") # <<>>

\* re.match('[te]*f', markers)
MatchForward(w) ==
    LET a == Star(w, 0, {"t", "e"})
    IN  Flatten([n \in 1..Len(a) |-> Lit(w, a[n], "f")])

\* re.match(r'e*(te*)+(se*)+', markers)
MatchUnmarkedQuote(w) ==
    LET a == Star(w, 0, {"e"})
    IN  Flatten([n \in 1..Len(a) |->
            LET b == Plus(w, a[n], "t")
            IN  Flatten([k \in 1..Len(b) |-> Plus(w, b[k], "s")])])

\* re_orig.match(r'e*[mfts]*((te*)+(me*)+)+[mfts]*((se*)+|(me*){2,})', markers)
MatchInlineReply(w) ==
    LET a == Star(w, 0, {"e"})
    IN  Flatten([n \in 1..Len(a) |->
            LET b == Star(w, a[n], {"m", "f", "t", "s"})
            IN  Flatten([k \in 1..Len(b) |->
                    LET c == Interleaved(w, b[k])
                    IN  Flatten([l \in 1..Len(c) |->
                            LET d == Star(w, c[l], {"m", "f", "t", "s"})
                            IN  Flatten([o \in 1..Len(d) |-> Border(w, d[o])])])])])

\* re_orig.match(r'e*(me*)+[mefts]*((se*)+|(me*){2,})', markers)
MatchQuotedReply(w) ==
    LET a == Star(w, 0, {"e"})
    IN  Flatten([n \in 1..Len(a) |->
            LET b == Plus(w, a[n], "m")
            IN  Flatten([k \in 1..Len(b) |->
                    LET c == Star(w, b[k], Markers)
                    IN  Flatten([l \in 1..Len(c) |-> Border(w, c[l])])])])

\* re.match(r'e*(te*)+(me*)+.*(s)+', markers)
MatchQuoteToSplitter(w) ==
    LET a == Star(w, 0, {"e"})
    IN  Flatten([n \in 1..Len(a) |->
            LET b == TextThenQuote(w, a[n])
            IN  Flatten([k \in 1..Len(b) |->
                    LET c == Star(w, b[k], Markers)
                    IN  Flatten([l \in 1..Len(c) |-> SPlus(w, c[l])])])])

\* re.match(r'e*(te*)+(me*)+.*(s)+e*(te*)+', markers)
MatchQuoteSplitterSignature(w) ==
    LET a == MatchQuoteToSplitter(w)
    IN  Flatten([n \in 1..Len(a) |->
            LET b == Star(w, a[n], {"e"})
            IN  Flatten([k \in 1..Len(b) |-> Plus(w, b[k], "t")])])

(***************************************************************************)
(* Line classification.                                                    *)
(***************************************************************************)
is_empty(line) == line = "blank"

is_forward(line) == line = "fwd"

is_quote(line) == line = "quote"

\* the line texts in which RE_ON_DATE_SMB_WROTE can start: "On <date>,"
StartsOnDate(line) == line \in {"split", "head"}

\* the line texts that contain "wrote:"
HasWrote(line) == line \in {"split", "tail", "inl"}

\* is_splitter on the window that starts at line i (1-based): the number of
\* lines of splitter.group(), 0 when no pattern matches.  "(.*\n){0,2}" is
\* greedy, so the match that ends two lines further down is preferred to the
\* one that ends on the next line, and that one to the match on line i alone.
is_splitter(ls, i) ==
    LET last == IF i + SPLITTER_MAX_LINES - 1 < Len(ls)
                THEN i + SPLITTER_MAX_LINES - 1 ELSE Len(ls)
    IN  IF ~StartsOnDate(ls[i]) THEN 0
        ELSE IF i + 2 <= last /\ HasWrote(ls[i + 2]) THEN 3
        ELSE IF i + 1 <= last /\ HasWrote(ls[i + 1]) THEN 2
        ELSE IF ls[i] = "split" THEN 1
        ELSE 0

RECURSIVE MarkFrom(_, _)
MarkFrom(ls, i) ==
    IF i > Len(ls) THEN <<>>
    ELSE IF is_empty(ls[i]) THEN <<"e">> \o MarkFrom(ls, i + 1)
    ELSE IF is_forward(ls[i]) THEN <<"f">> \o MarkFrom(ls, i + 1)
    ELSE IF is_quote(ls[i]) THEN <<"m">> \o MarkFrom(ls, i + 1)
    ELSE LET n == is_splitter(ls, i)
         IN  IF n > 0
             THEN [j \in 1..n |-> "s"] \o MarkFrom(ls, i + n)
             ELSE <<"t">> \o MarkFrom(ls, i + 1)

mark_message_lines(ls) == MarkFrom(ls, 1)

(***************************************************************************)
(* Boundary resolution.                                                    *)
(***************************************************************************)
\* markers.replace('m', 't') unless there is a splitter or three quote runs
Normalize(mk) ==
    IF "s" \notin Range(mk) /\ ~HasThreeQuoteRuns(mk)
    THEN [k \in 1..Len(mk) |-> IF mk[k] = "m" THEN "t" ELSE mk[k]]
    ELSE mk

\* the outcome of the matching block of process_marked_lines for the reversed
\* marker string r: inline is the early return of the inline-reply exclusion,
\* found says that `quotation` is a match object, end is quotation.end()
\* (quotation.start() is 0: re.match anchors at the start of the string)
NoQuotation == [inline |-> FALSE, found |-> FALSE, end |-> 0]

Found(ends) == [inline |-> FALSE, found |-> TRUE, end |-> Head(ends)]

\* the matching block with its last pattern tried on the markers in their
\* original order
QuotationFallbackForward(r) ==
    IF MatchUnmarkedQuote(r) # <<>> THEN Found(MatchUnmarkedQuote(r))
    ELSE IF MatchInlineReply(r) # <<>>
         THEN [inline |-> TRUE, found |-> FALSE, end |-> 0]
    ELSE IF MatchQuotedReply(r) # <<>> THEN Found(MatchQuotedReply(r))
    ELSE IF MatchQuoteSplitterSignature(Reverse(r)) # <<>>
         THEN Found(MatchQuoteToSplitter(Reverse(r)))
    ELSE NoQuotation

Quotation(r) ==
    IF MatchUnmarkedQuote(r) # <<>> THEN Found(MatchUnmarkedQuote(r))
    ELSE IF MatchInlineReply(r) # <<>>
         THEN [inline |-> TRUE, found |-> FALSE, end |-> 0]
    ELSE IF MatchQuotedReply(r) # <<>> THEN Found(MatchQuotedReply(r))
    ELSE IF MatchQuoteSplitterSignature(r) # <<>>
         THEN Found(MatchQuoteToSplitter(r))
    ELSE NoQuotation

\* lines[:start] + lines[end:]
Slice(ls, start, end) ==
    SubSeq(ls, 1, start) \o SubSeq(ls, end + 1, Len(ls))

QuotationStart(mk, q) == Len(mk) - q.end + 1

QuotationEnd(mk, q) == Len(mk) - 0 - 1

\* process_marked_lines without the check for a forward
process_marked_lines_NoForwardGuard(ls, mk0) ==
    LET mk == Normalize(mk0)
        q  == Quotation(Reverse(mk))
    IN  IF q.inline \/ ~q.found
        THEN [lines |-> ls, flags |-> <<FALSE, -1, -1>>]
        ELSE LET start == QuotationStart(mk, q)
                 end   == QuotationEnd(mk, q)
             IN  [lines |-> Slice(ls, start, end), flags |-> <<TRUE, start, end>>]

process_marked_lines(ls, mk0) ==
    LET mk == Normalize(mk0)
        q  == Quotation(Reverse(mk))
    IN  IF MatchForward(mk) # <<>> \/ q.inline \/ ~q.found
        THEN [lines |-> ls, flags |-> <<FALSE, -1, -1>>]
        ELSE LET start == QuotationStart(mk, q)
                 end   == QuotationEnd(mk, q)
             IN  [lines |-> Slice(ls, start, end), flags |-> <<TRUE, start, end>>]


(***************************************************************************)
(* Pre- and postprocessing.                                                *)
(***************************************************************************)
\* link_wrapper: '<http://...>' becomes '@@http://...@@' (none of the line
\* texts with a link starts with '>')
link_wrapper(line) == IF line = "link" THEN "mlink" ELSE line

\* splitter_wrapper: a delimiter is put in front of an 'On <date>, <person>
\* wrote:' that does not start its line, which breaks the line in two
RECURSIVE splitter_wrapper(_)
splitter_wrapper(ls) ==
    IF ls = <<>> THEN <<>>
    ELSE IF Head(ls) = "inl"
         THEN <<"text", "split">> \o splitter_wrapper(Tail(ls))
         ELSE <<Head(ls)>> \o splitter_wrapper(Tail(ls))

\* preprocess(msg_body, delimiter) followed by splitlines(); re.sub leaves a
\* body without a match as it is
preprocess(b) ==
    LET masked == [k \in 1..Len(b) |-> link_wrapper(b[k])]
    IN  IF "inl" \in Range(masked) THEN splitter_wrapper(masked) ELSE masked

\* re.sub(RE_NORMALIZED_LINK, r'<\1>', msg_body)
Unmask(ls) == [k \in 1..Len(ls) |-> IF ls[k] = "mlink" THEN "link" ELSE ls[k]]

\* str.strip() of the joined lines: the blank lines at both ends go
Strip(ls) ==
    IF \A k \in 1..Len(ls) : is_empty(ls[k]) THEN <<>>
    ELSE LET first == CHOOSE k \in 1..Len(ls) :
                          ~is_empty(ls[k]) /\ \A j \in 1..(k - 1) : is_empty(ls[j])
             last  == CHOOSE k \in 1..Len(ls) :
                          ~is_empty(ls[k]) /\ \A j \in (k + 1)..Len(ls) : is_empty(ls[j])
         IN  SubSeq(ls, first, last)

postprocess(ls) == Strip(Unmask(ls))

(***************************************************************************)
(* extract_from_plain as a state machine.                                  *)
(***************************************************************************)
\* bodies longer than the cap: a short beginning and quote-marked lines after
CapBodies ==
    {[k \in 1..(MAX_LINES_COUNT + 1) |-> IF k = 1 THEN first ELSE "quote"] :
        first \in LineKinds \ {"inl"}}

\* bodies in which runs of text lines and runs of quote-marked lines
\* alternate two or three times
Runs(rl) ==
    Flatten([k \in 1..Len(rl) |->
        [j \in 1..rl[k] |-> IF k % 2 = 1 THEN "text" ELSE "quote"]])

AlternatingBodies ==
    {Runs(rl) : rl \in [1..4 -> 1..MaxRun] \cup [1..6 -> 1..MaxRun]}

\* bodies made of reply text, a splitter line, a few lines of any kind, a
\* quote-marked line and one line of text below it
SignatureBodies ==
    {<<"text", "split">> \o mid \o <<"quote", "text">> :
        mid \in SeqsUpTo(BasicKinds, MaxMid)}

PlainBodies ==
    SeqsUpTo(BasicKinds, MaxLen) \cup SeqsUpTo(LineKinds, MaxRich)
        \cup AlternatingBodies \cup SignatureBodies \cup CapBodies

PlainInit ==
    /\ msg_body \in PlainBodies
    /\ pc = "start"
    /\ lines = <<>>
    /\ markers = <<>>
    /\ return_flags = <<FALSE, -1, -1>>
    /\ result = <<>>
    /\ pass = 1
    /\ first_result = <<>>

\* the body is over the cap and msg_body, which by then is the preprocessed
\* body, is returned in place of stripped_text
PlainTooLongReturnsPreprocessed ==
    /\ pc = "start"
    /\ Len(preprocess(msg_body)) > MAX_LINES_COUNT
    /\ result' = preprocess(msg_body)
    /\ pc' = "done"
    /\ UNCHANGED <<msg_body, lines, markers, return_flags, pass, first_result>>
    /\ UNCHANGED <<treeVars, selVars, dispVars>>

\* lines 287-295, the body is over the cap: return stripped_text
PlainTooLong ==
    /\ pc = "start"
    /\ Len(preprocess(msg_body)) > MAX_LINES_COUNT
    /\ result' = msg_body
    /\ pc' = "done"
    /\ UNCHANGED <<msg_body, lines, markers, return_flags, pass, first_result>>
    /\ UNCHANGED <<treeVars, selVars, dispVars>>

\* lines 287-295, the body is within the cap
PlainSplit ==
    /\ pc = "start"
    /\ Len(preprocess(msg_body)) <= MAX_LINES_COUNT
    /\ lines' = preprocess(msg_body)
    /\ pc' = "mark"
    /\ UNCHANGED <<msg_body, markers, return_flags, result, pass, first_result>>
    /\ UNCHANGED <<treeVars, selVars, dispVars>>

\* line 297
PlainMark ==
    /\ pc = "mark"
    /\ markers' = mark_message_lines(lines)
    /\ pc' = "process"
    /\ UNCHANGED <<msg_body, lines, return_flags, result, pass, first_result>>
    /\ UNCHANGED <<treeVars, selVars, dispVars>>

\* line 298
PlainProcess ==
    /\ pc = "process"
    /\ LET r == process_marked_lines(lines, markers)
       IN  /\ lines' = r.lines
           /\ return_flags' = r.flags
    /\ pc' = "post"
    /\ UNCHANGED <<msg_body, markers, result, pass, first_result>>
    /\ UNCHANGED <<treeVars, selVars, dispVars>>

\* lines 301-303
PlainPost ==
    /\ pc = "post"
    /\ result' = postprocess(lines)
    /\ pc' = "done"
    /\ UNCHANGED <<msg_body, lines, markers, return_flags, pass, first_result>>
    /\ UNCHANGED <<treeVars, selVars, dispVars>>

\* the caller applies extract_from_plain to the value it returned
PlainAgain ==
    /\ pc = "done"
    /\ pass = 1
    /\ msg_body' = result
    /\ first_result' = result
    /\ pass' = 2
    /\ pc' = "start"
    /\ lines' = <<>>
    /\ markers' = <<>>
    /\ UNCHANGED <<return_flags, result>>
    /\ UNCHANGED <<treeVars, selVars, dispVars>>

PlainNext ==
    \/ PlainTooLong
    \/ PlainSplit
    \/ PlainMark
    \/ PlainProcess
    \/ PlainPost
    \/ PlainAgain

(***************************************************************************)
(* HTML trees.  The elements are the numbers 1..K, 1 is the root; PH is    *)
(* the placeholder element.  A tree records, for every element, its        *)
(* children in order (kids), its text and its tail.  Text and tail are     *)
(* sequences of tokens: Txt is a piece of message text, a number n >= 0    *)
(* is the checkpoint token '#!%!n!%!#'.  An element with a parent has one  *)
(* parent: lxml moves an element that is inserted a second time.           *)
(***************************************************************************)
PH == 0
Txt == -1

SortedSeq(S) ==
    CHOOSE f \in [1..Cardinality(S) -> S] :
        \A i, j \in 1..Cardinality(S) : i < j => f[i] < f[j]

\* the trees with K elements: the parent of n is a smaller number, children
\* are ordered by number, has[n] says whether n carries text and tail
Trees(K) ==
    {[kids |-> [n \in 0..K |-> SortedSeq({c \in 2..K : par[c] = n})],
      text |-> [n \in 0..K |-> IF n > 0 /\ has[n] THEN <<Txt>> ELSE <<>>],
      tail |-> [n \in 0..K |-> IF n > 0 /\ has[n] THEN <<Txt>> ELSE <<>>]] :
        par \in {f \in [2..K -> 1..K] : \A n \in 2..K : f[n] < n},
        has \in [1..K -> BOOLEAN]}

NodesOf(t) == DOMAIN t.kids \ {PH}

\* the elements reachable from element n
RECURSIVE Subtree(_, _)
Subtree(t, n) ==
    {n} \cup UNION {Subtree(t, t.kids[n][k]) : k \in 1..Len(t.kids[n])}

InTree(t, n) == n \in Subtree(t, 1)

ParentOf(t, n) == CHOOSE q \in DOMAIN t.kids : n \in Range(t.kids[q])

HasParent(t, n) == \E q \in DOMAIN t.kids : n \in Range(t.kids[q])

Without(seq, x) == SelectSeq(seq, LAMBDA y : y # x)

IndexOf(seq, x) == CHOOSE k \in 1..Len(seq) : seq[k] = x

\* the element x leaves its parent, if it has one
Detach(t, x) == [t EXCEPT !.kids = [n \in DOMAIN t.kids |-> Without(t.kids[n], x)]]

\* n.insert(0, x)
InsertFirst(t, n, x) ==
    LET d == Detach(t, x) IN [d EXCEPT !.kids[n] = <<x>> \o d.kids[n]]

\* n.append(x)
AppendChild(t, n, x) ==
    LET d == Detach(t, x) IN [d EXCEPT !.kids[n] = Append(d.kids[n], x)]

\* c.addprevious(x)
AddPrevious(t, c, x) ==
    LET d == Detach(t, x)
        q == ParentOf(d, c)
        k == IndexOf(d.kids[q], c)
    IN  [d EXCEPT !.kids[q] =
            SubSeq(d.kids[q], 1, k - 1) \o <<x>> \o SubSeq(d.kids[q], k, Len(d.kids[q]))]

\* n.remove(c)
RemoveChild(t, n, c) == [t EXCEPT !.kids[n] = Without(t.kids[n], c)]

RECURSIVE RemoveAll(_, _, _)
RemoveAll(t, n, cs) ==
    IF cs = <<>> THEN t ELSE RemoveAll(RemoveChild(t, n, Head(cs)), n, Tail(cs))

(***************************************************************************)
(* add_checkpoint(html_note, counter): returns the tree with the           *)
(* checkpoints and the counter.                                            *)
(***************************************************************************)
RECURSIVE add_checkpoint(_, _, _)
RECURSIVE AddToChildren(_, _, _, _)

add_checkpoint(t, n, counter) ==
    LET t1 == [t EXCEPT !.text[n] =
                   IF t.text[n] # <<>> THEN t.text[n] \o <<counter>> ELSE <<counter>>]
        r  == AddToChildren(t1, n, 1, counter + 1)
        t2 == [r.tree EXCEPT !.tail[n] =
                   IF r.tree.tail[n] # <<>> THEN r.tree.tail[n] \o <<r.counter>>
                   ELSE <<r.counter>>]
    IN  [tree |-> t2, counter |-> r.counter + 1]

\* the loop over the children without 'counter =' in front of the call
RECURSIVE AddToChildrenDropsCounter(_, _, _, _)
AddToChildrenDropsCounter(t, n, k, counter) ==
    IF k > Len(t.kids[n]) THEN [tree |-> t, counter |-> counter]
    ELSE LET r == add_checkpoint(t, t.kids[n][k], counter)
         IN  AddToChildrenDropsCounter(r.tree, n, k + 1, counter)

\* for child in html_note.iterchildren(), from the k-th child on
AddToChildren(t, n, k, counter) ==
    IF k > Len(t.kids[n]) THEN [tree |-> t, counter |-> counter]
    ELSE LET r == add_checkpoint(t, t.kids[n][k], counter)
         IN  AddToChildren(r.tree, n, k + 1, r.counter)

(***************************************************************************)
(* delete_quotation_tags(html_note, quotation_checkpoints, placeholder).   *)
(* flags is the set of the checkpoint IDs that are flagged.  The helper    *)
(* returns the tree, the counter, tag_in_quotation, and ids: for every     *)
(* element it visited the pair of counter values it looked up on entering  *)
(* and on leaving the element.  insert_placeholder is a parameter of the   *)
(* helper: a call that clears its own copy does not clear its caller's.    *)
(***************************************************************************)
RECURSIVE recursive_helper(_, _, _, _, _)
RECURSIVE HelpChildren(_, _, _, _, _, _, _)

\* the helper with the children in quotation removed from every element, the
\* ones in quotation themselves included
recursive_helper_RemovesInQuotation(t, n, counter, insert_placeholder, flags) ==
    LET tag_text_in_quotation == counter \in flags
        t1 == IF tag_text_in_quotation /\ insert_placeholder
              THEN InsertFirst(t, n, PH) ELSE t
        ip1 == IF tag_text_in_quotation THEN FALSE ELSE insert_placeholder
        t2 == IF tag_text_in_quotation THEN [t1 EXCEPT !.text[n] = <<>>] ELSE t1
        r  == HelpChildren(t2, n, 1, counter + 1, ip1, flags, <<>>)
        tag_tail_in_quotation == r.counter \in flags
        t3 == IF tag_tail_in_quotation /\ ip1 /\ r.quoted = <<>>
              THEN AppendChild(r.tree, n, PH) ELSE r.tree
        ip2 == IF tag_tail_in_quotation /\ ip1 /\ r.quoted = <<>> THEN FALSE ELSE ip1
        t4 == IF tag_tail_in_quotation THEN [t3 EXCEPT !.tail[n] = <<>>] ELSE t3
        t5 == IF ip2 /\ r.quoted # <<>>
              THEN AddPrevious(t4, r.quoted[1], PH) ELSE t4
    IN  [tree |-> RemoveAll(t5, n, r.quoted), counter |-> r.counter + 1,
         quoted |-> tag_text_in_quotation /\ tag_tail_in_quotation,
         ids |-> r.ids \cup {<<n, counter, r.counter>>}]

recursive_helper(t, n, counter, insert_placeholder, flags) ==
    LET tag_text_in_quotation == counter \in flags
        t1 == IF tag_text_in_quotation /\ insert_placeholder
              THEN InsertFirst(t, n, PH) ELSE t
        ip1 == IF tag_text_in_quotation THEN FALSE ELSE insert_placeholder
        t2 == IF tag_text_in_quotation THEN [t1 EXCEPT !.text[n] = <<>>] ELSE t1
        r  == HelpChildren(t2, n, 1, counter + 1, ip1, flags, <<>>)
        tag_tail_in_quotation == r.counter \in flags
        t3 == IF tag_tail_in_quotation /\ ip1 /\ r.quoted = <<>>
              THEN AppendChild(r.tree, n, PH) ELSE r.tree
        ip2 == IF tag_tail_in_quotation /\ ip1 /\ r.quoted = <<>> THEN FALSE ELSE ip1
        t4 == IF tag_tail_in_quotation THEN [t3 EXCEPT !.tail[n] = <<>>] ELSE t3
        ids == r.ids \cup {<<n, counter, r.counter>>}
    IN  IF tag_text_in_quotation /\ tag_tail_in_quotation
        THEN [tree |-> t4, counter |-> r.counter + 1, quoted |-> TRUE, ids |-> ids]
        ELSE LET t5 == IF ip2 /\ r.quoted # <<>>
                       THEN AddPrevious(t4, r.quoted[1], PH) ELSE t4
             IN  [tree |-> RemoveAll(t5, n, r.quoted), counter |-> r.counter + 1,
                  quoted |-> FALSE, ids |-> ids]

\* for child in html_note.iterchildren(), from the k-th child on;
\* quotation_children is the list collected so far
HelpChildren(t, n, k, counter, insert_placeholder, flags, quotation_children) ==
    IF k > Len(t.kids[n])
    THEN [tree |-> t, counter |-> counter, quoted |-> quotation_children, ids |-> {}]
    ELSE LET child == t.kids[n][k]
         IN  IF child = PH
             THEN HelpChildren(t, n, k + 1, counter, insert_placeholder, flags,
                               quotation_children)
             ELSE LET r == recursive_helper(t, child, counter, insert_placeholder, flags)
                      rest == HelpChildren(r.tree, n, k + 1, r.counter,
                                  insert_placeholder, flags,
                                  IF r.quoted THEN Append(quotation_children, child)
                                  ELSE quotation_children)
                  IN  [rest EXCEPT !.ids = rest.ids \cup r.ids]

delete_quotation_tags(t, flags, ph) == recursive_helper(t, 1, 0, ph, flags)

(***************************************************************************)
(* extract_from_html_by_plaintext as a state machine.  The rendering of    *)
(* the copy by html2text and the lines it yields are outside the model:    *)
(* the checkpoints found on the deleted lines are any set of IDs.          *)
(***************************************************************************)
AllTrees == UNION {Trees(K) : K \in 1..MaxNodes}

TreeInit ==
    /\ html_tree \in AllTrees
    /\ html_tree_copy = html_tree
    /\ number_of_checkpoints = 0
    /\ quotation_checkpoints = {}
    /\ placeholder \in BOOLEAN
    /\ walk = {}
    /\ tpc = "copy"

\* lines 360-361
TreeAddCheckpoint ==
    /\ tpc = "copy"
    /\ LET r == add_checkpoint(html_tree_copy, 1, 0)
       IN  /\ html_tree_copy' = r.tree
           /\ number_of_checkpoints' = r.counter
    /\ quotation_checkpoints' = {}
    /\ tpc' = "render"
    /\ UNCHANGED <<html_tree, placeholder, walk>>
    /\ UNCHANGED <<plainVars, selVars, dispVars>>

\* lines 379-380 and 397-398: return False
TreeNoDeletion ==
    /\ tpc = "render"
    /\ tpc' = "false"
    /\ UNCHANGED <<html_tree, html_tree_copy, number_of_checkpoints,
                   quotation_checkpoints, placeholder, walk>>
    /\ UNCHANGED <<plainVars, selVars, dispVars>>

\* lines 400-403
TreeCollect ==
    /\ tpc = "render"
    /\ \E flagged \in SUBSET (0..(number_of_checkpoints - 1)) :
           quotation_checkpoints' = flagged
    /\ tpc' = "flagged"
    /\ UNCHANGED <<html_tree, html_tree_copy, number_of_checkpoints, placeholder, walk>>
    /\ UNCHANGED <<plainVars, selVars, dispVars>>

\* lines 406-407
TreeDelete ==
    /\ tpc = "flagged"
    /\ LET r == delete_quotation_tags(html_tree, quotation_checkpoints, placeholder)
       IN  /\ html_tree' = r.tree
           /\ walk' = r.ids
    /\ tpc' = "true"
    /\ UNCHANGED <<html_tree_copy, number_of_checkpoints, quotation_checkpoints,
                   placeholder>>
    /\ UNCHANGED <<plainVars, selVars, dispVars>>

TreeNext ==
    \/ TreeAddCheckpoint
    \/ TreeNoDeletion
    \/ TreeCollect
    \/ TreeDelete


(***************************************************************************)
(* extract_from_html as a state machine.  What a method does to its copy   *)
(* of the tree is given by outcomes: whether the method reported success   *)
(* and the length of the text html2text renders from the copy afterwards.  *)
(***************************************************************************)
methods ==
    <<"cut_gmail_quote", "cut_blockquote", "cut_microsoft_quote", "cut_by_id",
      "extract_from_html_by_plaintext">>

Outcome == [ok : BOOLEAN, length : 0..MaxRender]

NoOutcomes == [k \in 1..Len(methods) |-> [ok |-> FALSE, length |-> 0]]

\* the last of the smallest
RECURSIVE MinFromLast(_, _, _)
MinFromLast(rs, k, best) ==
    IF k > Len(rs) THEN best
    ELSE MinFromLast(rs, k + 1, IF rs[k].length <= best.length THEN rs[k] ELSE best)

\* min(results, key=lambda x: x[0]): the first of the smallest
RECURSIVE MinFrom(_, _, _)
MinFrom(rs, k, best) ==
    IF k > Len(rs) THEN best
    ELSE MinFrom(rs, k + 1, IF rs[k].length < best.length THEN rs[k] ELSE best)

ShortestResult(rs) == MinFrom(rs, 2, rs[1])

HtmlInit ==
    /\ html_kind \in {"blank", "malformed", "ok"}
    /\ IF html_kind = "ok"
       THEN outcomes \in [1..Len(methods) -> Outcome]
       ELSE outcomes = NoOutcomes
    /\ method = 1
    /\ results = <<>>
    /\ html_result = "none"
    /\ hpc = "start"

\* lines 321-322
HtmlBlank ==
    /\ hpc = "start"
    /\ html_kind = "blank"
    /\ html_result' = "msg_body"
    /\ hpc' = "done"
    /\ UNCHANGED <<html_kind, outcomes, method, results>>
    /\ UNCHANGED <<plainVars, treeVars, dispVars>>

\* lines 324-331, etree.ParserError
HtmlParserError ==
    /\ hpc = "start"
    /\ html_kind = "malformed"
    /\ html_result' = "msg_body"
    /\ hpc' = "done"
    /\ UNCHANGED <<html_kind, outcomes, method, results>>
    /\ UNCHANGED <<plainVars, treeVars, dispVars>>

\* lines 324-341
HtmlParse ==
    /\ hpc = "start"
    /\ html_kind = "ok"
    /\ results' = <<>>
    /\ hpc' = "loop"
    /\ UNCHANGED <<html_kind, outcomes, method, html_result>>
    /\ UNCHANGED <<plainVars, treeVars, dispVars>>

\* lines 342-348, one iteration of the loop
HtmlTryMethod ==
    /\ hpc = "loop"
    /\ method <= Len(methods)
    /\ results' =
           IF outcomes[method].ok /\ outcomes[method].length # 0
           THEN Append(results, [length |-> outcomes[method].length, method |-> method])
           ELSE results
    /\ method' = method + 1
    /\ UNCHANGED <<html_kind, outcomes, html_result, hpc>>
    /\ UNCHANGED <<plainVars, treeVars, dispVars>>

\* lines 349-352
HtmlSelect ==
    /\ hpc = "loop"
    /\ method > Len(methods)
    /\ results # <<>>
    /\ html_result' = methods[ShortestResult(results).method]
    /\ hpc' = "done"
    /\ UNCHANGED <<html_kind, outcomes, method, results>>
    /\ UNCHANGED <<plainVars, treeVars, dispVars>>

\* line 355
HtmlNoCut ==
    /\ hpc = "loop"
    /\ method > Len(methods)
    /\ results = <<>>
    /\ html_result' = "msg_body"
    /\ hpc' = "done"
    /\ UNCHANGED <<html_kind, outcomes, method, results>>
    /\ UNCHANGED <<plainVars, treeVars, dispVars>>

HtmlNext ==
    \/ HtmlBlank
    \/ HtmlParserError
    \/ HtmlParse
    \/ HtmlTryMethod
    \/ HtmlSelect
    \/ HtmlNoCut

(***************************************************************************)
(* extract_from as a state machine.  A call of extract_from_plain or       *)
(* extract_from_html either returns or raises an Exception.                *)
(***************************************************************************)
\* extract_from_plain as a function of the body
extract_from_plain(b) ==
    LET ls == preprocess(b)
    IN  IF Len(ls) > MAX_LINES_COUNT THEN b
        ELSE postprocess(process_marked_lines(ls, mark_message_lines(ls)).lines)

\* the markup extract_from_html returns when a method has cut the tree
CutMarkup == <<"html", "cut">>

NotReturned == <<"none">>

DispatchInit ==
    /\ content_type \in {"text/plain", "text/html", "text/calendar"}
    /\ body \in SeqsUpTo(BasicKinds, MaxBody)
    /\ returned = NotReturned
    /\ raised = FALSE
    /\ dpc = "try"

\* lines 108-109, extract_from_plain returns
DispatchPlain ==
    /\ dpc = "try"
    /\ content_type = "text/plain"
    /\ returned' = extract_from_plain(body)
    /\ dpc' = "returned"
    /\ UNCHANGED <<content_type, body, raised>>
    /\ UNCHANGED <<plainVars, treeVars, selVars>>

\* lines 110-111, extract_from_html returns
DispatchHtml ==
    /\ dpc = "try"
    /\ content_type = "text/html"
    /\ \E r \in {body, CutMarkup} : returned' = r
    /\ dpc' = "returned"
    /\ UNCHANGED <<content_type, body, raised>>
    /\ UNCHANGED <<plainVars, treeVars, selVars>>

\* the call raises and there is no try block around it
DispatchRaisePropagates ==
    /\ dpc = "try"
    /\ content_type \in {"text/plain", "text/html"}
    /\ raised' = TRUE
    /\ dpc' = "propagated"
    /\ UNCHANGED <<content_type, body, returned>>
    /\ UNCHANGED <<plainVars, treeVars, selVars>>

\* lines 108-112, the call raises: control passes to the except clause
DispatchRaise ==
    /\ dpc = "try"
    /\ content_type \in {"text/plain", "text/html"}
    /\ raised' = TRUE
    /\ dpc' = "except"
    /\ UNCHANGED <<content_type, body, returned>>
    /\ UNCHANGED <<plainVars, treeVars, selVars>>

\* lines 108-111, neither branch is taken
DispatchOther ==
    /\ dpc = "try"
    /\ content_type \notin {"text/plain", "text/html"}
    /\ dpc' = "fallthrough"
    /\ UNCHANGED <<content_type, body, returned, raised>>
    /\ UNCHANGED <<plainVars, treeVars, selVars>>

\* lines 112-113, log.exception
DispatchExcept ==
    /\ dpc = "except"
    /\ dpc' = "fallthrough"
    /\ UNCHANGED <<content_type, body, returned, raised>>
    /\ UNCHANGED <<plainVars, treeVars, selVars>>

\* line 115
DispatchReturnBody ==
    /\ dpc = "fallthrough"
    /\ returned' = body
    /\ dpc' = "returned"
    /\ UNCHANGED <<content_type, body, raised>>
    /\ UNCHANGED <<plainVars, treeVars, selVars>>

DispatchNext ==
    \/ DispatchPlain
    \/ DispatchHtml
    \/ DispatchRaise
    \/ DispatchOther
    \/ DispatchExcept
    \/ DispatchReturnBody

(***************************************************************************)
(* Specifications: one per entry point.  The variables of the other entry  *)
(* points stay idle.                                                       *)
(***************************************************************************)
PlainIdle ==
    /\ msg_body = <<>>
    /\ pc = "idle"
    /\ lines = <<>>
    /\ markers = <<>>
    /\ return_flags = <<FALSE, -1, -1>>
    /\ result = <<>>
    /\ pass = 0
    /\ first_result = <<>>

TreeIdle ==
    /\ html_tree = <<>>
    /\ html_tree_copy = <<>>
    /\ number_of_checkpoints = 0
    /\ quotation_checkpoints = {}
    /\ placeholder = FALSE
    /\ walk = {}
    /\ tpc = "idle"

HtmlIdle ==
    /\ html_kind = "idle"
    /\ outcomes = NoOutcomes
    /\ method = 0
    /\ results = <<>>
    /\ html_result = "none"
    /\ hpc = "idle"

DispatchIdle ==
    /\ content_type = "idle"
    /\ body = <<>>
    /\ returned = NotReturned
    /\ raised = FALSE
    /\ dpc = "idle"

Init == PlainInit /\ TreeIdle /\ HtmlIdle /\ DispatchIdle

Next == PlainNext

Spec == Init /\ [][Next]_vars

InitTree == PlainIdle /\ TreeInit /\ HtmlIdle /\ DispatchIdle

SpecTree == InitTree /\ [][TreeNext]_vars

InitHtml == PlainIdle /\ TreeIdle /\ HtmlInit /\ DispatchIdle

SpecHtml == InitHtml /\ [][HtmlNext]_vars

InitDispatch == PlainIdle /\ TreeIdle /\ HtmlIdle /\ DispatchInit

SpecDispatch == InitDispatch /\ [][DispatchNext]_vars

(***************************************************************************)
(* Properties.                                                             *)
(***************************************************************************)
NoFlags == <<FALSE, -1, -1>>

\* reply text, a blank line, a splitter line and then k quote-marked lines
ReplyAboveQuote(k) == <<"text", "blank", "split">> \o [j \in 1..k |-> "quote"]

\* C1: quote stripping.  For a body made of reply text, a blank line, one
\* 'On <date>, <person> wrote:' line and then only quote-marked lines,
\* extract_from_plain returns exactly the reply text.
C1_QuoteStripped ==
    (/\ pc = "done"
     /\ pass = 1
     /\ \E k \in 1..MaxLen : msg_body = ReplyAboveQuote(k))
        => result = <<"text">>

\* C2: inline-reply preservation.  For a body in which text lines and
\* quote-marked lines alternate more than once, process_marked_lines removes no
\* line and reports (false,-1,-1), and extract_from_plain returns its input.
C2_InlinePreserved ==
    (/\ pc \in {"post", "done"}
     /\ pass = 1
     /\ msg_body \in AlternatingBodies)
        => /\ return_flags = NoFlags
           /\ lines = msg_body
           /\ pc = "done" => result = msg_body

\* the first marker that is neither t nor e is f
ForwardFirst(mk) ==
    \E k \in 1..Len(mk) : mk[k] = "f" /\ \A j \in 1..(k - 1) : mk[j] \in {"t", "e"}

\* b without the blank lines at its two ends
RECURSIVE DropLeadingBlank(_)
DropLeadingBlank(b) ==
    IF b # <<>> /\ Head(b) = "blank" THEN DropLeadingBlank(Tail(b)) ELSE b

Trimmed(b) == Reverse(DropLeadingBlank(Reverse(DropLeadingBlank(b))))

C4_Idempotent == (pc = "done" /\ pass = 2) => result = first_result

\* C9: bound enforcement.  A body of more than MAX_LINES_COUNT lines is
\* returned as it is and is neither classified nor resolved; a body of at most
\* MAX_LINES_COUNT lines after preprocessing is classified, resolved and
\* postprocessed.
C9_CapReturnsArgument ==
    /\ Len(msg_body) > MAX_LINES_COUNT =>
          /\ pc \in {"start", "done"}
          /\ markers = <<>>
          /\ lines = <<>>
          /\ pc = "done" => result = msg_body
    /\ (pc = "done" /\ Len(preprocess(msg_body)) <= MAX_LINES_COUNT) =>
          /\ markers = mark_message_lines(preprocess(msg_body))
          /\ result = postprocess(lines)

\* a body over the cap that preprocessing would change has been returned
C9_Witness ==
    /\ pc = "done"
    /\ Len(msg_body) > MAX_LINES_COUNT
    /\ msg_body[1] = "link"
    /\ result = msg_body

\* C10: quotation span.  A reported deletion (true,start,end) has
\* 0 <= start < end <= len(lines); otherwise the flags are (false,-1,-1).
C10_SpanNonEmpty ==
    pc \in {"post", "done"} =>
        IF return_flags[1]
        THEN /\ 0 <= return_flags[2]
             /\ return_flags[2] < return_flags[3]
             /\ return_flags[3] <= Len(markers)
        ELSE return_flags = NoFlags


\* neither the check for a forward nor the first three patterns decide: the
\* pattern for a signature below the quote is tried
FallbackTried(mk) ==
    /\ MatchForward(mk) = <<>>
    /\ MatchUnmarkedQuote(Reverse(mk)) = <<>>
    /\ MatchInlineReply(Reverse(mk)) = <<>>
    /\ MatchQuotedReply(Reverse(mk)) = <<>>

\* what process_marked_lines returns when none of the patterns that come
\* before the last one applies is what these patterns give
EarlierPatternsDecide(mk) ==
    LET r == Reverse(mk)
    IN  IF MatchForward(mk) # <<>> THEN return_flags = NoFlags
        ELSE IF MatchUnmarkedQuote(r) # <<>>
             THEN return_flags =
                      <<TRUE, Len(mk) - Head(MatchUnmarkedQuote(r)) + 1, Len(mk) - 1>>
        ELSE IF MatchInlineReply(r) # <<>> THEN return_flags = NoFlags
        ELSE return_flags =
                 <<TRUE, Len(mk) - Head(MatchQuotedReply(r)) + 1, Len(mk) - 1>>

\* the number of the first splitter line, counting the lines from 1
FirstSplitter(mk) ==
    CHOOSE k \in 1..Len(mk) : mk[k] = "s" /\ \A j \in 1..(k - 1) : mk[j] # "s"

Sentinels(tokens) == SelectSeq(tokens, LAMBDA x : x >= 0)

\* the checkpoint IDs add_checkpoint left on the text and on the tail of n
EnterId(n) == html_tree_copy.text[n][Len(html_tree_copy.text[n])]

ExitId(n) == html_tree_copy.tail[n][Len(html_tree_copy.tail[n])]

TreeNodes == NodesOf(html_tree_copy)

\* the elements in the order of their numbers are the children of element n
\* of the tree as it was handed over
KidsOf(n) == html_tree_copy.kids[n]

\* both checkpoints of element n are flagged: the element is removed
FullyFlagged(n) ==
    EnterId(n) \in quotation_checkpoints /\ ExitId(n) \in quotation_checkpoints

\* the first flagged checkpoint in the order of the traversal
Earliest ==
    CHOOSE f \in quotation_checkpoints : \A g \in quotation_checkpoints : f <= g

\* the number of places in the tree at which the placeholder sits
PlaceholderCount ==
    Cardinality({nk \in (Subtree(html_tree, 1) \ {PH}) \X (1..(MaxNodes + 1)) :
        /\ nk[2] <= Len(html_tree.kids[nk[1]])
        /\ html_tree.kids[nk[1]][nk[2]] = PH})

\* the placeholder sits at the boundary of the first flagged checkpoint
AtEarliestBoundary ==
    \E n \in TreeNodes :
        \/ /\ Earliest = EnterId(n)
           /\ n # 1
           /\ FullyFlagged(n)
           /\ LET q == ParentOf(html_tree_copy, n)
              IN  html_tree.kids[q] =
                      SelectSeq([k \in 1..Len(KidsOf(q)) |->
                                    IF KidsOf(q)[k] = n THEN PH ELSE KidsOf(q)[k]],
                                LAMBDA c : c = PH \/ ~FullyFlagged(c))
        \/ /\ Earliest = EnterId(n)
           /\ (n = 1 \/ ~FullyFlagged(n))
           /\ html_tree.kids[n] # <<>>
           /\ html_tree.kids[n][1] = PH
        \/ /\ Earliest = ExitId(n)
           /\ html_tree.kids[n] # <<>>
           /\ html_tree.kids[n][Len(html_tree.kids[n])] = PH

\* C5: placeholder injection.  After delete_quotation_tags with a
\* placeholder and at least one flagged checkpoint the tree holds exactly one
\* placeholder, and it sits at the earliest flagged boundary: in front of the
\* removed element when the first flagged checkpoint enters an element that is
\* removed, else first in the element whose text, or last in the element whose
\* tail, the first flagged checkpoint is.
C5_PlaceholderAtEarliest ==
    (tpc = "true" /\ placeholder /\ quotation_checkpoints # {})
        => /\ PlaceholderCount = 1
           /\ AtEarliestBoundary

\* C6: HTML strategy selection.  The methods are tried in the order of the
\* list; the value returned is the copy of the first method among those with
\* the smallest rendered length, taken over the methods that reported success
\* and render to a non-zero length; the body itself when there is none.
Qualifies(k) == outcomes[k].ok /\ outcomes[k].length > 0

C6_ShortestFirstWins ==
    /\ hpc \in {"loop", "done"} =>
          /\ \A i, j \in 1..Len(results) : i < j => results[i].method < results[j].method
          /\ \A i \in 1..Len(results) :
                /\ results[i].method < method
                /\ Qualifies(results[i].method)
                /\ results[i].length = outcomes[results[i].method].length
          /\ \A k \in 1..Len(methods) :
                (k < method /\ Qualifies(k)) => \E i \in 1..Len(results) : results[i].method = k
    /\ (hpc = "done" /\ html_kind = "ok") =>
          IF \E k \in 1..Len(methods) : Qualifies(k)
          THEN \E k \in 1..Len(methods) :
                  /\ Qualifies(k)
                  /\ html_result = methods[k]
                  /\ \A j \in 1..Len(methods) :
                        Qualifies(j) =>
                            /\ outcomes[k].length <= outcomes[j].length
                            /\ outcomes[j].length = outcomes[k].length => k <= j
          ELSE html_result = "msg_body"
    /\ (hpc = "done" /\ html_kind # "ok") => html_result = "msg_body"

\* two methods tie on the smallest length, a shorter candidate that rendered
\* to nothing is passed over, and the earlier of the two is returned
C6_Witness ==
    /\ hpc = "done"
    /\ outcomes[1] = [ok |-> TRUE, length |-> 0]
    /\ outcomes[2] = [ok |-> FALSE, length |-> 1]
    /\ outcomes[3] = [ok |-> TRUE, length |-> 2]
    /\ outcomes[4] = [ok |-> TRUE, length |-> 1]
    /\ outcomes[5] = [ok |-> TRUE, length |-> 1]
    /\ html_result = "cut_by_id"

\* C7: checkpoint bijection.  add_checkpoint returns 2K for a tree of K
\* elements and leaves exactly one token at the end of every text and of every
\* tail, numbered 0..2K-1 in the order enter, children in order, exit; the
\* walk of delete_quotation_tags looks up the same two IDs for every element.
C7_CheckpointBijection ==
    /\ tpc \in {"render", "false", "flagged", "true"} =>
          /\ number_of_checkpoints = 2 * Cardinality(TreeNodes)
          /\ \A n \in TreeNodes :
                /\ Len(Sentinels(html_tree_copy.text[n])) = 1
                /\ Len(Sentinels(html_tree_copy.tail[n])) = 1
                /\ EnterId(n) >= 0
                /\ ExitId(n) >= 0
                /\ tpc # "true" =>
                      /\ html_tree_copy.text[n] = html_tree.text[n] \o <<EnterId(n)>>
                      /\ html_tree_copy.tail[n] = html_tree.tail[n] \o <<ExitId(n)>>
                /\ IF KidsOf(n) = <<>>
                   THEN ExitId(n) = EnterId(n) + 1
                   ELSE /\ EnterId(KidsOf(n)[1]) = EnterId(n) + 1
                        /\ ExitId(n) = ExitId(KidsOf(n)[Len(KidsOf(n))]) + 1
                        /\ \A k \in 1..(Len(KidsOf(n)) - 1) :
                              EnterId(KidsOf(n)[k + 1]) = ExitId(KidsOf(n)[k]) + 1
          /\ EnterId(1) = 0
          /\ {EnterId(n) : n \in TreeNodes} \cup {ExitId(n) : n \in TreeNodes}
                 = 0..(number_of_checkpoints - 1)
    /\ tpc = "true" => walk = {<<n, EnterId(n), ExitId(n)>> : n \in TreeNodes}

\* a tree of three elements, the root with two children, has been walked a
\* second time with the placeholder put into the tree on the way
C7_Witness ==
    /\ tpc = "true"
    /\ Cardinality(TreeNodes) = 3
    /\ Len(KidsOf(1)) = 2
    /\ placeholder
    /\ 1 \in quotation_checkpoints
    /\ InTree(html_tree, PH)
    /\ <<3, 3, 4>> \in walk

\* C8: fail-open dispatcher.  extract_from never lets an exception of the
\* call escape and always returns; when the call raised, or the content type
\* is neither text/plain nor text/html, it returns the body it was given.
C8_FailOpen ==
    /\ dpc \in {"try", "except", "fallthrough", "returned", "idle"}
    /\ dpc = "returned" =>
          /\ returned # NotReturned
          /\ (raised \/ content_type \notin {"text/plain", "text/html"})
                => returned = body
    /\ raised => dpc \in {"except", "fallthrough", "returned"}

\* the call raised on a body that extract_from_plain would have shortened,
\* and the body came back whole
C8_Witness ==
    /\ dpc = "returned"
    /\ raised
    /\ content_type = "text/plain"
    /\ extract_from_plain(body) # body
    /\ returned = body

\* the text and the tail element n had before the checkpoints were added
TextBefore(n) == SubSeq(html_tree_copy.text[n], 1, Len(html_tree_copy.text[n]) - 1)

TailBefore(n) == SubSeq(html_tree_copy.tail[n], 1, Len(html_tree_copy.tail[n]) - 1)

EnterFlagged(n) == EnterId(n) \in quotation_checkpoints

ExitFlagged(n) == ExitId(n) \in quotation_checkpoints

\* an element above n has both its checkpoints flagged
RECURSIVE HasFlaggedAncestor(_)
HasFlaggedAncestor(n) ==
    /\ n # 1
    /\ LET q == ParentOf(html_tree_copy, n)
       IN  FullyFlagged(q) \/ HasFlaggedAncestor(q)

\* n, or an element above n, has both its checkpoints flagged and hangs from
\* an element that has not: that element takes it out
RECURSIVE TakenOut(_)
TakenOut(n) ==
    /\ n # 1
    /\ LET q == ParentOf(html_tree_copy, n)
       IN  (FullyFlagged(n) /\ ~FullyFlagged(q)) \/ TakenOut(q)

\* the element is in the tree with its text cleared if its first checkpoint
\* is flagged and its tail cleared if its second is, and as they were if not
KeptAndCleared(n) ==
    /\ InTree(html_tree, n)
    /\ html_tree.text[n] = IF EnterFlagged(n) THEN <<>> ELSE TextBefore(n)
    /\ html_tree.tail[n] = IF ExitFlagged(n) THEN <<>> ELSE TailBefore(n)

\* C12, as stated: excision policy.  The walk looks up for every element
\* the IDs add_checkpoint gave it; every element other than the root with
\* both checkpoints flagged is gone from the tree, whatever is flagged above
\* it; an element with exactly one checkpoint flagged stays, with that text or
\* tail cleared and the other as it was; an element with neither flagged and
\* no fully flagged element above it stays with text and tail as they were.
C12_ExcisionPolicy ==
    tpc = "true" =>
        /\ walk = {<<n, EnterId(n), ExitId(n)>> : n \in TreeNodes}
        /\ \A n \in TreeNodes :
              /\ (n # 1 /\ FullyFlagged(n)) =>
                    \A d \in Subtree(html_tree_copy, n) : ~InTree(html_tree, d)
              /\ (EnterFlagged(n) # ExitFlagged(n)) => KeptAndCleared(n)
              /\ (~EnterFlagged(n) /\ ~ExitFlagged(n) /\ ~HasFlaggedAncestor(n))
                    => KeptAndCleared(n)

\* C12, amended: the walk looks up for every element the IDs add_checkpoint
\* gave it; an element is gone from the tree exactly when it, or an element
\* above it, has both checkpoints flagged and hangs from an element that has
\* not (so nothing is taken out of a chain of fully flagged elements that
\* starts at the root); every other element stays where it was, among the
\* children that stay and in their order, with its text cleared if its enter
\* checkpoint is flagged and its tail cleared if its exit checkpoint is, and
\* both as they were if not.
C12_ExcisionByParent ==
    tpc = "true" =>
        /\ walk = {<<n, EnterId(n), ExitId(n)>> : n \in TreeNodes}
        /\ \A n \in TreeNodes :
              IF TakenOut(n) THEN ~InTree(html_tree, n)
              ELSE /\ KeptAndCleared(n)
                   /\ Without(html_tree.kids[n], PH)
                          = SelectSeq(KidsOf(n), LAMBDA c : ~TakenOut(c))

\* the root and its only child have both checkpoints flagged, the child of
\* that child has none: nothing was taken out and the text of the innermost
\* element is still there
C12_Witness ==
    /\ tpc = "true"
    /\ placeholder
    /\ KidsOf(1) = <<2>>
    /\ KidsOf(2) = <<3>>
    /\ quotation_checkpoints = {0, 1, 4, 5}
    /\ InTree(html_tree, 2)
    /\ InTree(html_tree, 3)
    /\ html_tree.text[2] = <<>>
    /\ html_tree.text[3] = <<Txt>>

====
